---- MODULE Spec2Model ----
(***************************************************************************)
(* Model of "Campus Image-to-GPS" (e.py): EXIF numeric coercion, DMS to    *)
(* decimal conversion, the per-image EXIF field extractor and the          *)
(* directory report builder (main).                                        *)
(*                                                                         *)
(* Python values are tagged records.  Numbers (int / float / rational) are *)
(* exact rationals [k |-> "num", n, d] in lowest terms with d > 0; float   *)
(* rounding is abstracted away.  An exception that leaves a function is    *)
(* the value Raise(name).                                                  *)
(***************************************************************************)
EXTENDS Integers, Sequences, FiniteSets, TLC

VARIABLES
    pc,        \* position of the running specification
    x,         \* argument of _to_float
    fres,      \* what _to_float returned (or raised)
    dms,       \* first argument of dms_to_decimal
    ref,       \* second argument of dms_to_decimal
    dres,      \* what dms_to_decimal returned (or raised)
    image,     \* content of the image file handed to extract_exif_fields
    outcome,   \* what extract_exif_fields did: returned record or raised
    path,      \* the path handed to extract_exif_fields
    gps_info,  \* the GPS mapping extract_exif_fields settled on
    input_ok,  \* main: input_dir exists and is a directory
    fs,        \* main: the JPEG files under input_dir
    ext_i,     \* main: index of the glob pattern being walked
    yielded,   \* main: paths rglob has yielded for that pattern
    images_map,\* main: the dict key -> path, in insertion order
    rows,      \* main: the records built so far
    calls,     \* main: the calls of extract_exif_fields made so far
    out_path,  \* main: the output path the table was written under
    written    \* main: the files written

coreVars == <<x, fres, dms, ref, dres, image, path, outcome, gps_info>>
mainVars == <<input_ok, fs, ext_i, yielded, images_map, rows, calls, out_path, written>>
vars == <<pc, coreVars, mainVars>>

(***************************************************************************)
(* Bounds                                                                  *)
(***************************************************************************)
MaxInt == 2      \* integers range over -MaxInt..MaxInt
MaxLen == 4      \* longest tuple offered as a DMS value
MaxPaths == 3    \* most JPEG files under the input directory

(***************************************************************************)
(* Python values                                                           *)
(***************************************************************************)
None == [k |-> "none"]
Idle == [k |-> "idle"]                      \* a variable no specification uses
Raise(e) == [k |-> "raise", exc |-> e]

Abs(i) == IF i < 0 THEN -i ELSE i

RECURSIVE Gcd(_, _)
Gcd(a, b) == IF b = 0 THEN a ELSE Gcd(b, a % b)

\* the rational n/d (d # 0) in lowest terms, d > 0
Rat(n, d) ==
    LET g == Gcd(Abs(n), Abs(d))
        s == IF d < 0 THEN -1 ELSE 1
    IN  [k |-> "num", n |-> (s * n) \div g, d |-> (s * d) \div g]

Num(i) == Rat(i, 1)
RAdd(a, b) == Rat(a.n * b.d + b.n * a.d, a.d * b.d)
RDiv(a, b) == Rat(a.n * b.d, a.d * b.n)
RNeg(a) == Rat(-a.n, a.d)

IsNum(v) == v.k = "num"
IsRaise(v) == v.k = "raise"

BadStr == [k |-> "str", numeric |-> FALSE]               \* e.g. "abc"
NumStr(i) == [k |-> "str", numeric |-> TRUE, val |-> i]  \* e.g. "2"
Tuple(s) == [k |-> "tuple", items |-> s]
List(s) == [k |-> "list", items |-> s]

Ints == (-MaxInt)..MaxInt
PairComps == {Num(i) : i \in Ints} \cup {BadStr}
Pairs == {Tuple(<<a, b>>) : a \in PairComps, b \in PairComps}

\* the values offered to _to_float
Values ==
    {Num(i) : i \in Ints} \cup Pairs
        \cup {NumStr(i) : i \in Ints}
        \cup {List(<<a, b>>) : a \in PairComps, b \in PairComps}
        \cup {None, BadStr, Tuple(<<>>), Tuple(<<Num(1)>>),
              Tuple(<<Num(1), Num(1), Num(1)>>)}

(***************************************************************************)
(* _to_float                                                               *)
(***************************************************************************)
\* float(x): a number for a number or a numeric string, otherwise TypeError /
\* ValueError
PyFloat(v) ==
    CASE v.k = "num" -> v
      [] v.k = "str" /\ v.numeric -> Num(v.val)
      [] v.k = "str" /\ ~v.numeric -> Raise("ValueError")
      [] OTHER -> Raise("TypeError")

\* x != 0
NeZero(v) == ~(v.k = "num" /\ v.n = 0)

\* a / b for b != 0: defined between numbers only
PyDiv(a, b) ==
    IF IsNum(a) /\ IsNum(b) THEN RDiv(a, b) ELSE Raise("TypeError")

_to_float(v) ==
    LET f == PyFloat(v)
    IN  IF ~IsRaise(f) THEN f
        ELSE IF v.k = "tuple" /\ Len(v.items) = 2 /\ NeZero(v.items[2])
             THEN PyDiv(v.items[1], v.items[2])
             ELSE None

(***************************************************************************)
(* dms_to_decimal                                                          *)
(***************************************************************************)
NoRef == "<absent>"                      \* ref is None
Refs == {"N", "S", "E", "W", "", "s", "X", NoRef}

\* truth value of a Python object
Truthy(v) ==
    CASE v.k = "none" -> FALSE
      [] v.k = "num" -> v.n # 0
      [] v.k = "tuple" -> Len(v.items) > 0
      [] v.k = "list" -> Len(v.items) > 0
      [] v.k = "dict" -> \E i \in DOMAIN v.tags : v.tags[i].k # "absent"
      [] OTHER -> TRUE

\* len(v) of a tuple or list; -1 stands for the TypeError of a value without
\* len() (a number)
PyLen(v) ==
    IF v.k \in {"tuple", "list"} THEN Len(v.items) ELSE -1

\* line 41 with the minutes term subtracted
DecimalMinusMinutes(deg, minutes, seconds) ==
    RAdd(RAdd(deg, RNeg(RDiv(minutes, Num(60)))), RDiv(seconds, Num(3600)))

\* line 41: deg + (minutes / 60.0) + (seconds / 3600.0)
DecimalOf(deg, minutes, seconds) ==
    RAdd(RAdd(deg, RDiv(minutes, Num(60))), RDiv(seconds, Num(3600)))

\* line 42 comparing the reference letter without regard to case
InSouthWestAnyCase(r) == r \in {"S", "W", "s", "w"}

\* line 42: ref in ("S", "W")
InSouthWest(r) == r \in {"S", "W"}

dms_to_decimal(d, r) ==
    IF ~Truthy(d) THEN None
    ELSE IF PyLen(d) < 0 THEN Raise("TypeError")
    ELSE IF PyLen(d) # 3 THEN None
    ELSE LET deg == _to_float(d.items[1])
             minutes == _to_float(d.items[2])
             seconds == _to_float(d.items[3])
         IN  IF IsRaise(deg) THEN deg
             ELSE IF IsRaise(minutes) THEN minutes
             ELSE IF IsRaise(seconds) THEN seconds
             ELSE IF deg = None \/ minutes = None \/ seconds = None THEN None
             ELSE LET decimal == DecimalOf(deg, minutes, seconds)
                  IN  IF InSouthWest(r) THEN RNeg(decimal) ELSE decimal

\* components offered inside a DMS tuple
DmsComps ==
    {Num(i) : i \in (-1)..MaxInt}
        \cup {Tuple(<<Num(1), Num(2)>>), Tuple(<<Num(-1), Num(2)>>),
              Tuple(<<Num(1), Num(0)>>), Tuple(<<BadStr, Num(2)>>),
              Tuple(<<Num(1), BadStr>>), None, BadStr}

DmsInputs ==
    {None} \cup {Num(i) : i \in 0..1}
        \cup {Tuple(<<>>)}
        \cup {Tuple(<<a>>) : a \in DmsComps}
        \cup {Tuple(<<a, b>>) : a \in DmsComps, b \in DmsComps}
        \cup {Tuple(<<a, b, c>>) : a \in DmsComps, b \in DmsComps, c \in DmsComps}
        \cup {Tuple([i \in 1..n |-> c]) : n \in 4..MaxLen, c \in DmsComps}

(***************************************************************************)
(* EXIF content of one image                                               *)
(***************************************************************************)
Absent == [k |-> "absent"]                       \* the key is not in the mapping
Text(cs) == [k |-> "text", chars |-> cs]         \* a str, as its characters
RefVal(s) == [k |-> "ref", s |-> s]              \* a reference letter tag value
Bytes(b) == [k |-> "bytes", b |-> b]             \* a one-byte bytes value
Dict(t) == [k |-> "dict", tags |-> t]            \* GPS IFD: tag id -> value
NoAccessor == [k |-> "noattr"]                   \* exif has no get_ifd
IfdError == [k |-> "ifderror"]                   \* exif.get_ifd raises

Make == 271
Model == 272
GPSInfo == 34853

\* ExifTags.GPSTAGS restricted to the six tags read here (ids 1..6)
GPSTAGS ==
    <<"GPSLatitudeRef", "GPSLatitude", "GPSLongitudeRef", "GPSLongitude",
      "GPSAltitudeRef", "GPSAltitude">>

\* gps = {GPSTAGS.get(k, k): v for k, v in gps_info.items()}; gps.get(name)
GpsGet(info, name) ==
    LET ks == {i \in DOMAIN info.tags :
                  GPSTAGS[i] = name /\ info.tags[i] # Absent}
    IN  IF ks = {} THEN None ELSE info.tags[CHOOSE i \in ks : TRUE]

\* gps.get(name, default)
GpsGetDefault(info, name, default) ==
    LET ks == {i \in DOMAIN info.tags :
                  GPSTAGS[i] = name /\ info.tags[i] # Absent}
    IN  IF ks = {} THEN default ELSE info.tags[CHOOSE i \in ks : TRUE]

\* the reference value as dms_to_decimal compares it with "S" and "W"
RefOf(v) == IF v.k = "ref" THEN v.s ELSE NoRef

(***************************************************************************)
(* str.strip and the Make/Model field                                      *)
(***************************************************************************)
RECURSIVE LStrip(_)
LStrip(cs) ==
    IF cs # <<>> /\ Head(cs) = " " THEN LStrip(Tail(cs)) ELSE cs

RECURSIVE RStrip(_)
RStrip(cs) ==
    IF cs # <<>> /\ cs[Len(cs)] = " " THEN RStrip(SubSeq(cs, 1, Len(cs) - 1)) ELSE cs

Strip(cs) == RStrip(LStrip(cs))

\* str(tag).strip() if tag is not None else ""
TagStr(tag) == IF tag = None THEN <<>> ELSE Strip(tag.chars)

\* lines 67-72: the value data["Make/Model"] holds afterwards
MakeModelOf(exif) ==
    LET make_str == TagStr(exif[Make])
        model_str == TagStr(exif[Model])
    IN  IF make_str # <<>> \/ model_str # <<>>
        THEN Text(Strip(make_str \o <<" ">> \o model_str))
        ELSE None

(***************************************************************************)
(* Locating the GPS sub-block (lines 74-87)                                *)
(***************************************************************************)
LocateGpsFlatFirst(img) ==
    LET raw_gps == img.flat
    IN  IF raw_gps.k = "dict" /\ Truthy(raw_gps) THEN raw_gps
        ELSE IF img.nested.k = "dict" THEN img.nested
        ELSE None

LocateGps(img) ==
    LET nested == IF img.nested.k = "noattr" THEN None
                  ELSE IF img.nested.k = "ifderror" THEN None
                  ELSE img.nested
        raw_gps == img.flat
    IN  IF Truthy(nested) THEN nested
        ELSE IF raw_gps.k = "dict" THEN raw_gps
        ELSE nested

(***************************************************************************)
(* extract_exif_fields                                                     *)
(***************************************************************************)
\* str(image_path)
PathStr(p) == [k |-> "pathstr", of |-> p]

NewData(p) ==
    [PhotoPath |-> PathStr(p), Latitude |-> None, Longitude |-> None,
     Altitude |-> None, MakeModel |-> None, DayNight |-> ""]

Returned(d) == [kind |-> "return", data |-> d]
Raised(d) == [kind |-> "raise", data |-> d]

\* lines 95-108, data being the record built so far
DecodeGps(gi, data) ==
    LET lat == dms_to_decimal(GpsGet(gi, "GPSLatitude"),
                              RefOf(GpsGet(gi, "GPSLatitudeRef")))
        lon == dms_to_decimal(GpsGet(gi, "GPSLongitude"),
                              RefOf(GpsGet(gi, "GPSLongitudeRef")))
        d2 == [data EXCEPT !.Latitude = lat, !.Longitude = lon]
        alt == GpsGet(gi, "GPSAltitude")
        alt_ref == GpsGetDefault(gi, "GPSAltitudeRef", Num(0))
        alt_val == _to_float(alt)
    IN  IF IsRaise(lat) \/ IsRaise(lon) THEN Raised(data)
        ELSE IF IsRaise(alt_val) THEN Raised(d2)
        ELSE IF alt_val # None
             THEN Returned([d2 EXCEPT !.Altitude =
                              IF alt_ref = Num(1) THEN RNeg(alt_val) ELSE alt_val])
             ELSE Returned(d2)

\* the body of the try block (lines 61-108): how it ends and the record then
ExtractBody(p, img) ==
    LET data == NewData(p)
    IN  IF ~img.readable THEN Raised(data)
        ELSE IF ~img.has_exif THEN Returned(data)
        ELSE LET d1 == [data EXCEPT !.MakeModel = MakeModelOf(img.exif)]
                 gi == LocateGps(img)
             IN  IF ~Truthy(gi) THEN Returned(d1) ELSE DecodeGps(gi, d1)

ExtractNoHandler(p, img) == ExtractBody(p, img)

\* try: ... except Exception: return data
extract_exif_fields(p, img) == Returned(ExtractBody(p, img).data)

\* the variables of main while another specification runs
MainIdle ==
    /\ input_ok = FALSE /\ fs = Idle /\ ext_i = 0 /\ yielded = {}
    /\ images_map = <<>> /\ rows = <<>> /\ calls = <<>>
    /\ out_path = Idle /\ written = <<>>

(***************************************************************************)
(* Specification of _to_float on its own                                   *)
(***************************************************************************)
InitCoerce ==
    /\ pc = "coerce"
    /\ x \in Values
    /\ fres = Idle
    /\ dms = Idle /\ ref = NoRef /\ dres = Idle
    /\ image = Idle /\ path = 0 /\ outcome = Idle /\ gps_info = Idle
    /\ MainIdle

CallToFloat ==
    /\ pc = "coerce"
    /\ fres' = _to_float(x)
    /\ pc' = "coerced"
    /\ UNCHANGED <<x, dms, ref, dres, image, path, outcome, gps_info, mainVars>>

NextCoerce == CallToFloat

SpecCoerce == InitCoerce /\ [][NextCoerce]_vars

(***************************************************************************)
(* Specification of dms_to_decimal on its own                              *)
(***************************************************************************)
InitDms ==
    /\ pc = "dms"
    /\ dms \in DmsInputs
    /\ ref \in Refs
    /\ dres = Idle
    /\ x = Idle /\ fres = Idle
    /\ image = Idle /\ path = 0 /\ outcome = Idle /\ gps_info = Idle
    /\ MainIdle

CallDmsToDecimal ==
    /\ pc = "dms"
    /\ dres' = dms_to_decimal(dms, ref)
    /\ pc' = "converted"
    /\ UNCHANGED <<x, fres, dms, ref, image, path, outcome, gps_info, mainVars>>

NextDms == CallDmsToDecimal

SpecDms == InitDms /\ [][NextDms]_vars

(***************************************************************************)
(* Properties of _to_float and dms_to_decimal                              *)
(***************************************************************************)
\* C4: _to_float never lets an exception out: whatever the value, it returns
\* a float or None.
C4_ToFloatNeverRaises ==
    pc = "coerced" => (IsNum(fres) \/ fres = None)

ThreeComponents(d) == d.k \in {"tuple", "list"} /\ Len(d.items) = 3

\* the DMS value is missing, is not three components long, or has a component
\* that _to_float turns into None
DmsUnavailable(d) ==
    \/ d = None
    \/ ~ThreeComponents(d)
    \/ \E i \in 1..3 : _to_float(d.items[i]) = None

\* C5: dms_to_decimal returns None exactly when the DMS value is missing, not
\* three components long or has a component coerced to None, and a number in
\* every other case.
C5_UnavailableExactlyWhen ==
    pc = "converted" =>
        IF DmsUnavailable(dms) THEN dres = None ELSE IsNum(dres)

\* three components, each coerced to a number
Coerces(d) ==
    ThreeComponents(d) /\ \A i \in 1..3 : IsNum(_to_float(d.items[i]))

\* C6: for a triple whose components coerce to numbers the result is
\* degrees + minutes/60 + seconds/3600 (compared over the common denominator),
\* negated exactly for the references "S" and "W"; the "S" ("W") result is the
\* negation of the "N" ("E") result of the same triple.
C6_SignedDecimal ==
    pc = "converted" /\ Coerces(dms) =>
        LET a == _to_float(dms.items[1])
            b == _to_float(dms.items[2])
            c == _to_float(dms.items[3])
            num == 3600 * a.n * b.d * c.d + 60 * b.n * a.d * c.d + c.n * a.d * b.d
            den == 3600 * a.d * b.d * c.d
            sgn == IF ref = "S" \/ ref = "W" THEN -1 ELSE 1
        IN  /\ IsNum(dres)
            /\ dres.n * den = sgn * num * dres.d
            /\ ref = "S" => dres = RNeg(dms_to_decimal(dms, "N"))
            /\ ref = "W" => dres = RNeg(dms_to_decimal(dms, "E"))

\* C6 witness: a fractional triple converted with reference "W" came out negative
C6_Witness ==
    /\ pc = "converted" /\ Coerces(dms) /\ ref = "W"
    /\ IsNum(dres) /\ dres.n < 0 /\ dres.d > 1

\* C7 as stated: with reference "N", "E" or none, the result is non-negative
\* whenever degrees >= 0.
C7_NonNegWhenDegreesNonNeg ==
    pc = "converted" /\ Coerces(dms) /\ ref \in {"N", "E", NoRef}
        /\ _to_float(dms.items[1]).n >= 0
    => IsNum(dres) /\ dres.n >= 0

\* C7 amended: with reference "N", "E" or none, the result is non-negative
\* whenever degrees, minutes and seconds are all >= 0.
C7_NonNegWhenAllNonNeg ==
    pc = "converted" /\ Coerces(dms) /\ ref \in {"N", "E", NoRef}
        /\ (\A i \in 1..3 : _to_float(dms.items[i]).n >= 0)
    => IsNum(dres) /\ dres.n >= 0

\* C7 witness: zero degrees and positive minutes with reference "E" gave a
\* positive result
C7_Witness ==
    /\ pc = "converted" /\ Coerces(dms) /\ ref = "E"
    /\ (\A i \in 1..3 : _to_float(dms.items[i]).n >= 0)
    /\ _to_float(dms.items[1]).n = 0 /\ _to_float(dms.items[2]).n > 0
    /\ IsNum(dres) /\ dres.n > 0

(***************************************************************************)
(* Specification of extract_exif_fields on its own                         *)
(***************************************************************************)
GoodDms == Tuple(<<Num(1), Tuple(<<Num(1), Num(2)>>), Num(0)>>)

LatSamples ==
    {Absent, GoodDms, Num(1), Tuple(<<Tuple(<<BadStr, Num(2)>>), Num(0), Num(0)>>),
     Tuple(<<None, Num(0), Num(0)>>), Tuple(<<Num(1), Num(0)>>)}
LonSamples == {Absent, GoodDms, Tuple(<<Num(0), Num(0), Tuple(<<Num(1), BadStr>>)>>)}
AltSamples ==
    {Absent, Num(100), Tuple(<<Num(1), Num(2)>>), Tuple(<<Num(1), Num(0)>>),
     Tuple(<<BadStr, Num(2)>>)}
AltRefSamples == {Absent, Num(0), Num(1), Bytes(1)}

EmptyDict == Dict([i \in 1..6 |-> Absent])

\* the mappings exif.get_ifd(GPSInfo) may return, the empty one included
GpsDicts ==
    {EmptyDict} \cup
    {Dict(<<latref, lat, lonref, lon, altref, alt>>) :
        latref \in {RefVal("N"), RefVal("S")}, lat \in LatSamples,
        lonref \in {Absent, RefVal("W")}, lon \in LonSamples,
        altref \in AltRefSamples, alt \in AltSamples}

\* what exif.get(GPSInfo) may return: nothing, the IFD offset, or a mapping
FlatValues ==
    {None, Num(1), EmptyDict,
     Dict(<<RefVal("S"), GoodDms, RefVal("E"), GoodDms, Absent, Num(-1)>>),
     Dict(<<Absent, Absent, Absent, Absent, Num(1), Num(100)>>)}

MakeValues == {None, Text(<<" ">>), Text(<<"A", " ">>)}
ModelValues == {None, Text(<<"x">>)}

\* Image.open or im.getexif raises (corrupt file, not an image)
Unreadable == [readable |-> FALSE]
\* the image opens and im.getexif() is empty
NoExif == [readable |-> TRUE, has_exif |-> FALSE]
WithExif(make, model, nested, flat) ==
    [readable |-> TRUE, has_exif |-> TRUE,
     exif |-> (Make :> make @@ Model :> model), nested |-> nested, flat |-> flat]

Images ==
    {Unreadable, NoExif}
        \cup {WithExif(make, model, nested, flat) :
                make \in MakeValues, model \in ModelValues,
                nested \in {NoAccessor, IfdError} \cup GpsDicts,
                flat \in FlatValues}

InitExtract ==
    /\ pc = "extract"
    /\ image \in Images
    /\ path \in 1..2
    /\ outcome = Idle
    /\ gps_info = Idle
    /\ x = Idle /\ fres = Idle
    /\ dms = Idle /\ ref = NoRef /\ dres = Idle
    /\ MainIdle

CallExtract ==
    /\ pc = "extract"
    /\ outcome' = extract_exif_fields(path, image)
    /\ gps_info' = IF image.readable /\ image.has_exif THEN LocateGps(image) ELSE None
    /\ pc' = "extracted"
    /\ UNCHANGED <<x, fres, dms, ref, dres, image, path, mainVars>>

NextExtract == CallExtract

SpecExtract == InitExtract /\ [][NextExtract]_vars

(***************************************************************************)
(* Properties of extract_exif_fields                                       *)
(***************************************************************************)
\* C1: extract_exif_fields always returns a record, whatever fails while the
\* file is opened or decoded; its Photo Path is str(image_path) and its
\* Day/Night is "".
C1_NeverFailsOutward ==
    pc = "extracted" =>
        /\ outcome.kind = "return"
        /\ outcome.data.PhotoPath = PathStr(path)
        /\ outcome.data.DayNight = ""

\* C1 witness: an exception was raised while the GPS values of a readable
\* image were decoded, and a record came back
C1_Witness ==
    /\ pc = "extracted" /\ image.readable
    /\ ExtractBody(path, image).kind = "raise"
    /\ outcome.kind = "return"

\* C2: when an error is hit anywhere in the processing, the returned record
\* has Latitude, Longitude, Altitude and Make/Model all None.
C2_ErrorLeavesOnlyPath ==
    pc = "extracted" /\ ExtractBody(path, image).kind = "raise" =>
        /\ outcome.data.Latitude = None
        /\ outcome.data.Longitude = None
        /\ outcome.data.Altitude = None
        /\ outcome.data.MakeModel = None

\* C8: once a GPS tag set is obtained, Altitude is the coerced GPSAltitude,
\* negated when GPSAltitudeRef equals 1 and unchanged when it is 0 or absent;
\* it is None when GPSAltitude is missing or does not coerce.
C8_AltitudeFromRawAndRef ==
    pc = "extracted" /\ Truthy(gps_info) =>
        LET raw == GpsGet(gps_info, "GPSAltitude")
            r == GpsGet(gps_info, "GPSAltitudeRef")
            c == _to_float(raw)
        IN  IF IsNum(c)
            THEN /\ r = Num(1) => outcome.data.Altitude = RNeg(c)
                 /\ r \in {Num(0), None} => outcome.data.Altitude = c
            ELSE outcome.data.Altitude = None

NonEmptyDict(v) == v.k = "dict" /\ \E i \in DOMAIN v.tags : v.tags[i] # Absent

\* C9: the mapping of exif.get_ifd is used whenever it is non-empty; the one
\* of exif.get(GPSInfo) only when the accessor is missing, raises or returns
\* an empty mapping; with neither, Latitude, Longitude and Altitude stay None
\* and the Make/Model read before is kept.
C9_NestedFirst ==
    pc = "extracted" /\ image.readable /\ image.has_exif =>
        LET d1 == [NewData(path) EXCEPT !.MakeModel = MakeModelOf(image.exif)]
        IN  /\ NonEmptyDict(image.nested) =>
                /\ gps_info = image.nested
                /\ outcome.data = DecodeGps(image.nested, d1).data
            /\ ~NonEmptyDict(image.nested) /\ NonEmptyDict(image.flat) =>
                /\ gps_info = image.flat
                /\ outcome.data = DecodeGps(image.flat, d1).data
            /\ ~NonEmptyDict(image.nested) /\ ~NonEmptyDict(image.flat) =>
                /\ ~Truthy(gps_info)
                /\ outcome.data = d1
                /\ outcome.data.Latitude = None
                /\ outcome.data.Longitude = None
                /\ outcome.data.Altitude = None
                /\ (image.exif[Make] = Text(<<"A", " ">>) /\ image.exif[Model] = None)
                       => outcome.data.MakeModel = Text(<<"A">>)

\* C9 witness: both forms held different non-empty mappings and the nested
\* one was decoded into the record
C9_Witness ==
    /\ pc = "extracted" /\ image.readable /\ image.has_exif
    /\ NonEmptyDict(image.nested) /\ NonEmptyDict(image.flat)
    /\ image.nested # image.flat
    /\ gps_info = image.nested
    /\ IsNum(outcome.data.Latitude) /\ outcome.data.Latitude.n > 0
    /\ outcome.data.Latitude #
           dms_to_decimal(GpsGet(image.flat, "GPSLatitude"),
                          RefOf(GpsGet(image.flat, "GPSLatitudeRef")))

(***************************************************************************)
(* main: the directory report builder                                      *)
(***************************************************************************)
\* line 135: the patterns walked, by the extension each one asks for
Patterns == <<"jpg", "JPG", "jpeg", "JPEG">>

\* an extension with its letters lowered
FoldExt(e) == IF e \in {"jpg", "JPG"} THEN "jpg" ELSE "jpeg"

\* input_dir.rglob(Patterns[i]): on a case-insensitive file system the
\* pattern matches the name whatever its case
Matches(i) ==
    {p \in 1..fs.n :
        IF fs.ci THEN FoldExt(fs.ext[p]) = FoldExt(Patterns[i])
        ELSE fs.ext[p] = Patterns[i]}

\* line 137 with the path itself as the key
KeyIsPath(p) == p

\* line 137: os.path.normcase(str(p.resolve()))
KeyOf(p) == fs.key[p]

Keys(m) == {m[i].key : i \in 1..Len(m)}

\* lines 137-139
Insert(m, p) ==
    IF KeyOf(p) \notin Keys(m) THEN Append(m, [key |-> KeyOf(p), p |-> p]) ELSE m

\* line 140: list(images_map.values())
ImagesOf(m) == [i \in 1..Len(m) |-> m[i].p]

RECURSIVE InsertSorted(_, _)
InsertSorted(sorted, p) ==
    IF sorted = <<>> THEN <<p>>
    ELSE IF p < Head(sorted) THEN <<p>> \o sorted
    ELSE <<Head(sorted)>> \o InsertSorted(Tail(sorted), p)

RECURSIVE PySorted(_)
PySorted(l) ==
    IF l = <<>> THEN <<>> ELSE InsertSorted(PySorted(Tail(l)), Head(l))

\* line 142: sorted(images)
SortedImages(m) == PySorted(ImagesOf(m))

\* str.lower on the characters an output suffix is made of here
LowerChar(c) ==
    CASE c = "C" -> "c" [] c = "S" -> "s" [] c = "V" -> "v"
      [] c = "X" -> "x" [] c = "L" -> "l" [] OTHER -> c

Lower(cs) == [i \in 1..Len(cs) |-> LowerChar(cs[i])]

\* line 154 without .lower()
OutExtExact(out) == out.suffix

\* line 154: out_path.suffix.lower()
OutExt(out) == Lower(out.suffix)

\* out_path.with_suffix(suffix)
WithSuffix(out, suffix) == [out EXCEPT !.suffix = suffix]

\* lines 156-166: the file written
SaveTable(out) ==
    IF OutExt(out) = <<".", "c", "s", "v">>
    THEN [format |-> "csv", path |-> out]
    ELSE IF OutExt(out) = <<".", "x", "l", "s", "x">>
    THEN [format |-> "xlsx", path |-> out]
    ELSE [format |-> "csv", path |-> WithSuffix(out, <<".", "c", "s", "v">>)]

\* values of --output: a name and its suffix ("" when there is none)
OutPaths ==
    {[stem |-> "photos_metadata", suffix |-> sfx] :
        sfx \in {<<".", "c", "s", "v">>, <<".", "C", "S", "V">>,
                 <<".", "x", "l", "s", "x">>, <<".", "X", "l", "s", "X">>,
                 <<".", "p", "n", "g">>, <<>>}}

\* the extensions the files under input_dir carry
Extensions == {"jpg", "JPG", "JPEG"}

\* the files main may find: their number, the extension of each, the key
\* each path resolves to (two paths with one key are one file) and whether
\* names match patterns without regard to case
FileSystems ==
    UNION {[n : {n}, ext : [1..n -> Extensions],
            key : {k \in [1..n -> 1..n] : \A p \in 1..n : k[p] <= p /\ k[k[p]] = k[p]},
            ci : BOOLEAN] : n \in 0..MaxPaths}

\* the contents a file may have when main decodes it
MainImages ==
    {Unreadable,
     WithExif(Text(<<"A">>), None, NoAccessor,
              Dict(<<RefVal("S"), GoodDms, RefVal("E"), GoodDms, Num(1), Num(100)>>))}

Init ==
    /\ pc = "main"
    /\ input_ok \in BOOLEAN
    /\ fs \in FileSystems
    /\ ext_i = 0 /\ yielded = {}
    /\ images_map = <<>> /\ rows = <<>> /\ calls = <<>>
    /\ out_path = Idle /\ written = <<>>
    /\ x = Idle /\ fres = Idle
    /\ dms = Idle /\ ref = NoRef /\ dres = Idle
    /\ image = Idle /\ path = 0 /\ outcome = Idle /\ gps_info = Idle

\* lines 129-130: raise SystemExit
RejectInput ==
    /\ pc = "main" /\ ~input_ok
    /\ pc' = "exit"
    /\ UNCHANGED <<coreVars, mainVars>>

AcceptInput ==
    /\ pc = "main" /\ input_ok
    /\ pc' = "glob"
    /\ ext_i' = 1
    /\ UNCHANGED <<coreVars, input_ok, fs, yielded, images_map, rows, calls,
                   out_path, written>>

\* lines 136-139: rglob yields one more path, in whatever order it likes
GlobYield ==
    /\ pc = "glob"
    /\ \E p \in Matches(ext_i) \ yielded :
          /\ images_map' = Insert(images_map, p)
          /\ yielded' = yielded \cup {p}
    /\ UNCHANGED <<pc, coreVars, input_ok, fs, ext_i, rows, calls, out_path, written>>

\* line 135: the pattern is exhausted; on to the next one, or to the rows
GlobNext ==
    /\ pc = "glob"
    /\ Matches(ext_i) \subseteq yielded
    /\ yielded' = {}
    /\ IF ext_i < Len(Patterns)
       THEN ext_i' = ext_i + 1 /\ pc' = "glob"
       ELSE ext_i' = ext_i /\ pc' = "rows"
    /\ UNCHANGED <<coreVars, input_ok, fs, images_map, rows, calls, out_path, written>>

\* line 142: the next element of the list comprehension; the file is read now
BuildRow ==
    /\ pc = "rows"
    /\ Len(calls) < Len(images_map)
    /\ \E img \in MainImages :
          LET p == SortedImages(images_map)[Len(calls) + 1]
              r == extract_exif_fields(p, img)
          IN  /\ calls' = Append(calls, [p |-> p, img |-> img])
              /\ IF r.kind = "return"
                 THEN rows' = Append(rows, r.data) /\ pc' = "rows"
                 ELSE rows' = rows /\ pc' = "crashed"
    /\ UNCHANGED <<coreVars, input_ok, fs, ext_i, yielded, images_map, out_path, written>>

\* lines 144-166: the table is written under the path --output gave (the
\* argument is not looked at before line 153, so it is drawn here)
WriteTable ==
    /\ pc = "rows"
    /\ Len(calls) = Len(images_map)
    /\ \E out \in OutPaths :
          /\ out_path' = out
          /\ written' = Append(written, SaveTable(out))
    /\ pc' = "done"
    /\ UNCHANGED <<coreVars, input_ok, fs, ext_i, yielded, images_map, rows, calls>>

Next ==
    \/ RejectInput
    \/ AcceptInput
    \/ GlobYield
    \/ GlobNext
    \/ BuildRow
    \/ WriteTable

Spec == Init /\ [][Next]_vars

(***************************************************************************)
(* Properties of main                                                      *)
(***************************************************************************)
\* the paths the four patterns find, and the distinct files they are
Discovered == UNION {Matches(i) : i \in 1..Len(Patterns)}
DistinctFiles == {fs.key[p] : p \in Discovered}

\* C3: the report has exactly one row per distinct file, in sorted path
\* order; the extractor is called exactly once per file; a file that fails to
\* decode still gives its row, with its path, and the later rows follow.
C3_OneRowPerFile ==
    /\ pc # "crashed"
    /\ pc \in {"rows", "done"} =>
          /\ Len(rows) = Len(calls)
          /\ \A i \in 1..Len(rows) :
                /\ rows[i].PhotoPath = PathStr(calls[i].p)
                /\ ~calls[i].img.readable => rows[i] = NewData(calls[i].p)
          /\ \A i, j \in 1..Len(calls) :
                i < j => /\ calls[i].p < calls[j].p
                         /\ fs.key[calls[i].p] # fs.key[calls[j].p]
          /\ {calls[i].p : i \in 1..Len(calls)} \subseteq Discovered
    /\ pc = "done" =>
          /\ {fs.key[calls[i].p] : i \in 1..Len(calls)} = DistinctFiles
          /\ Len(rows) = Cardinality(DistinctFiles)

\* C3 witness: two paths that are one file were found, the other file was
\* found first though it sorts last, the first file decoded was unreadable,
\* and the finished report has both rows in path order
C3_Witness ==
    /\ pc = "done"
    /\ Cardinality(Discovered) > Cardinality(DistinctFiles)
    /\ Len(rows) >= 2
    /\ images_map[1].p > images_map[2].p
    /\ ~calls[1].img.readable
    /\ rows[2].MakeModel # None

\* C10: the format follows the lowered suffix of the output path (.csv: text
\* at that path; .xlsx: spreadsheet at that path; anything else: text at the
\* path with suffix .csv); a run that passed the input check and finished
\* wrote exactly one file; a run whose input path is no directory exits before
\* anything is decoded or written.
C10_OutputByExtension ==
    /\ pc \in {"main", "exit", "glob", "rows"} => written = <<>>
    /\ pc = "exit" => ~input_ok
    /\ (pc # "main" /\ ~input_ok) => pc = "exit" /\ calls = <<>> /\ images_map = <<>>
    /\ pc = "done" =>
          /\ input_ok
          /\ Len(written) = 1
          /\ out_path.suffix \in {<<".", "c", "s", "v">>, <<".", "C", "S", "V">>}
                => written[1] = [format |-> "csv", path |-> out_path]
          /\ out_path.suffix \in {<<".", "x", "l", "s", "x">>, <<".", "X", "l", "s", "X">>}
                => written[1] = [format |-> "xlsx", path |-> out_path]
          /\ out_path.suffix \in {<<".", "p", "n", "g">>, <<>>}
                => written[1] = [format |-> "csv",
                                 path |-> [stem |-> out_path.stem,
                                           suffix |-> <<".", "c", "s", "v">>]]

\* C10 witness: a run given an output path ending in .png wrote delimited
\* text under the .csv name
C10_Witness ==
    /\ pc = "done"
    /\ out_path.suffix = <<".", "p", "n", "g">>
    /\ written = <<[format |-> "csv",
                    path |-> [stem |-> "photos_metadata",
                              suffix |-> <<".", "c", "s", "v">>]]>>

====
